---- MODULE Spec2Model ----
(***************************************************************************)
(* Request handlers of the multitenant chart repository server             *)
(* (pkg/chartmuseum/server/multitenant/handlers.go) over a key-addressed   *)
(* object store.  Every handler is a sequence of steps, one per storage    *)
(* call; the steps of concurrent requests interleave.                      *)
(***************************************************************************)
EXTENDS Naturals, Sequences, FiniteSets, TLC

\* Bounds of the model: calls accepted in a sequential run / a concurrent run.
MaxCalls == 2
MaxConcCalls == 2

Workers == {"w1", "w2"}

\* Tenants (c.GetString("repo")); "" is the repository of a server that
\* serves a single tenant.
Tenants == {"", "t1", "t2"}

\* Configured form field names.
ChartPostFormFieldName == "chart"
ProvPostFormFieldName == "prov"

(***************************************************************************)
(* Request payloads.  A payload is either well-formed bytes of some kind,  *)
(* not present (a missing form field), or not readable (I/O error).        *)
(***************************************************************************)
Bytes(kind, name, version, salt) ==
    [kind |-> kind, name |-> name, version |-> version, salt |-> salt]

Absent == Bytes("absent", "", "", 0)
Unreadable == Bytes("unreadable", "", "", 0)
Junk == Bytes("junk", "", "", 0)
PkgA1 == Bytes("tgz", "a", "1", 1)
PkgA2 == Bytes("tgz", "a", "1", 2)
ProvA1 == Bytes("prov", "a", "1", 1)

PackageBodies == {PkgA1, PkgA2, Junk, Unreadable}
ProvenanceBodies == {ProvA1, Junk, Unreadable}
ChartNames == {"a"}
ChartVersions == {"1"}

(***************************************************************************)
(* ArtifactNamer (cm_repo).                                                *)
(***************************************************************************)
ChartPackageFilenameFromNameVersion(name, version) ==
    name \o "-" \o version \o ".tgz"

ProvenanceFilenameFromNameVersion(name, version) ==
    name \o "-" \o version \o ".tgz.prov"

\* [filename, err]: err is TRUE when the bytes are no well-formed package.
ChartPackageFilenameFromContent(content) ==
    IF content.kind = "tgz"
    THEN [filename |-> ChartPackageFilenameFromNameVersion(content.name, content.version),
          err |-> FALSE]
    ELSE [filename |-> "", err |-> TRUE]

ProvenanceFilenameFromContent(content) ==
    IF content.kind = "prov"
    THEN [filename |-> ProvenanceFilenameFromNameVersion(content.name, content.version),
          err |-> FALSE]
    ELSE [filename |-> "", err |-> TRUE]

\* path.Join of a tenant and a filename without separators.
Join(repo, filename) ==
    IF repo = "" THEN filename
    ELSE IF filename = "" THEN repo
    ELSE repo \o "/" \o filename

Filenames ==
    {ChartPackageFilenameFromNameVersion(n, v) : n \in ChartNames, v \in ChartVersions}
    \cup {ProvenanceFilenameFromNameVersion(n, v) : n \in ChartNames, v \in ChartVersions}

Keys == Filenames \cup {Join(t, f) : t \in Tenants, f \in Filenames}

(***************************************************************************)
(* ObjectStore (server.StorageBackend).  An object remembers the call that *)
(* wrote it.  A call may fail for a backend reason (fault) besides the     *)
(* object being absent.                                                    *)
(***************************************************************************)
NoObject == [content |-> Absent, by |-> 0]

Object(content, id) == [content |-> content, by |-> id]

GetObjectErr(store, key, fault) == fault \/ store[key] = NoObject

PutObjectErr(store, key, fault) == fault

DeleteObjectErr(store, key, fault) == fault \/ store[key] = NoObject

PutObject(store, key, obj, fault) ==
    IF PutObjectErr(store, key, fault) THEN store ELSE [store EXCEPT ![key] = obj]

DeleteObject(store, key, fault) ==
    IF DeleteObjectErr(store, key, fault) THEN store ELSE [store EXCEPT ![key] = NoObject]

\* A storage call as the caller sees it; saw is the call that wrote the object
\* found under the key (0: none).
StorageOp(store, op, key, err, fault) ==
    [op |-> op, key |-> key, err |-> err, fault |-> fault, saw |-> store[key].by]

(***************************************************************************)
(* Responses (c.JSON).                                                     *)
(***************************************************************************)
Response(status, msg) == [status |-> status, msg |-> msg]

objectSavedResponse == <<"saved">>
objectDeletedResponse == <<"deleted">>
notFoundErrorResponse == <<"not found">>
alreadyExistsErrorResponse == <<"file already exists">>

VARIABLES
    AllowOverwrite,   \* server.AllowOverwrite
    storage,          \* server.StorageBackend: key -> object
    pc,               \* position of each worker in its handler
    call,             \* locals of the request each worker serves, or served last
    ncalls,           \* requests accepted so far
    index,            \* the index of each tenant, as server.getIndexFile gives it
    fetched           \* the answer of the last chart version request

vars == <<AllowOverwrite, storage, pc, call, ncalls, index, fetched>>

EmptyCall ==
    [id |-> 0, op |-> "none", repo |-> "", chart |-> Absent, prov |-> Absent,
     name |-> "", version |-> "", filename |-> "",
     ppFiles |-> <<>>, storedFiles |-> <<>>, i |-> 0, putErr |-> <<>>,
     resp |-> <<>>, ops |-> <<>>,
     pre |-> [k \in Keys |-> NoObject]]

(***************************************************************************)
(* TenantIndex (server.getIndexFile, cm_repo index).  The entries of a     *)
(* chart are its version records, highest version first.                   *)
(***************************************************************************)
IndexNames == {"a"}
IndexVersions == {"1", "2", "3"}

\* The order of versions.
Rank(version) ==
    CASE version = "1" -> 1
      [] version = "2" -> 2
      [] version = "3" -> 3
      [] OTHER -> 0

ChartVersion(name, version) == [name |-> name, version |-> version]

NoChartVersion == ChartVersion("", "")

RECURSIVE SortedEntries(_, _)
\* The records of the versions of a chart, highest first.
SortedEntries(name, versions) ==
    IF versions = {} THEN <<>>
    ELSE LET top == CHOOSE v \in versions : \A u \in versions : Rank(u) <= Rank(v)
         IN  <<ChartVersion(name, top)>> \o SortedEntries(name, versions \ {top})

\* The entries an index may hold; <<>>: the chart is not in the index.
IndexFiles == [IndexNames -> {SortedEntries("a", S) : S \in SUBSET IndexVersions}]

EmptyIndex == [t \in Tenants |-> [n \in IndexNames |-> <<>>]]

NothingFetched == [repo |-> "", name |-> "", version |-> "", status |-> 0,
                   chartVersion |-> NoChartVersion, entries |-> <<>>]

Init ==
    /\ AllowOverwrite \in BOOLEAN
    /\ storage = [k \in Keys |-> NoObject]
    /\ pc = [w \in Workers |-> "idle"]
    /\ call = [w \in Workers |-> EmptyCall]
    /\ ncalls = 0
    /\ index = EmptyIndex
    /\ fetched = NothingFetched

\* Locals of a request just accepted.
NewCall(op, repo) ==
    [EmptyCall EXCEPT !.id = ncalls + 1, !.op = op, !.repo = repo, !.pre = storage]

\* The worker's call after c.JSON(status, msg).
Respond(c, status, msg) == [c EXCEPT !.resp = Append(@, Response(status, msg))]

\* The worker's call after a storage call.
Logged(c, store, op, key, err, fault) ==
    [c EXCEPT !.ops = Append(@, StorageOp(store, op, key, err, fault))]

Status(c) == IF c.resp = <<>> THEN 0 ELSE c.resp[Len(c.resp)].status

Faulted(c) == \E n \in 1..Len(c.ops) : c.ops[n].fault

(***************************************************************************)
(* A step of a handler yields the worker's locals, its next position and   *)
(* the store after the step.                                               *)
(***************************************************************************)
Result(c, at, store) == [call |-> c, pc |-> at, storage |-> store]

ReadErrorMessage == <<"read error">>
PutErrorMessage(key) == <<"put failed", key>>
InvalidContentMessage(content) == <<"invalid content", content.kind>>

(***************************************************************************)
(* postPackageRequestHandler: raw body, chart package only.                *)
(***************************************************************************)
\* Variant: the probe looks outside the tenant's prefix.
PackageProbeKeyBare(repo, filename) == filename

PackageProbeKey(repo, filename) == Join(repo, filename)

PackagePutKey(repo, filename) == Join(repo, filename)

\* Variant: the probe is made whatever the overwrite policy.
PackageAcceptAlwaysProbes(c, store) ==
    LET named == ChartPackageFilenameFromContent(c.chart)
    IN  IF c.chart = Unreadable
        THEN Result(Respond(c, 500, ReadErrorMessage), "done", store)
        ELSE IF named.err
        THEN Result(Respond(c, 500, InvalidContentMessage(c.chart)), "done", store)
        ELSE Result([c EXCEPT !.filename = named.filename], "package_probe", store)

\* From the request to the first storage call.
PackageAccept(c, store) ==
    LET named == ChartPackageFilenameFromContent(c.chart)
    IN  IF c.chart = Unreadable
        THEN Result(Respond(c, 500, ReadErrorMessage), "done", store)
        ELSE IF named.err
        THEN Result(Respond(c, 500, InvalidContentMessage(c.chart)), "done", store)
        ELSE Result([c EXCEPT !.filename = named.filename],
                    IF ~AllowOverwrite THEN "package_probe" ELSE "package_put", store)

\* Variant: the conflict answer is not followed by a return.
PackageProbeReportsLookupError(c, store, fault) ==
    LET key == PackageProbeKey(c.repo, c.filename)
        err == GetObjectErr(store, key, fault)
        c1 == Logged(c, store, "get", key, err, fault)
    IN  IF ~err
        THEN Result(Respond(c1, 409, alreadyExistsErrorResponse), "done", store)
        ELSE IF fault
        THEN Result(Respond(c1, 500, <<"lookup failed", key>>), "done", store)
        ELSE Result(c1, "package_put", store)

\* Variant: the conflict answer does not end the request.
PackageProbeMissingReturn(c, store, fault) ==
    LET key == PackageProbeKey(c.repo, c.filename)
        err == GetObjectErr(store, key, fault)
        c1 == Logged(c, store, "get", key, err, fault)
    IN  IF ~err
        THEN Result(Respond(c1, 409, alreadyExistsErrorResponse), "package_put", store)
        ELSE Result(c1, "package_put", store)

PackageProbe(c, store, fault) ==
    LET key == PackageProbeKey(c.repo, c.filename)
        err == GetObjectErr(store, key, fault)
        c1 == Logged(c, store, "get", key, err, fault)
    IN  IF ~err
        THEN Result(Respond(c1, 409, alreadyExistsErrorResponse), "done", store)
        ELSE Result(c1, "package_put", store)

\* Variant: a write to a key that holds an object is dropped, and reported saved.
PackagePutKeepsExisting(c, store, fault) ==
    LET key == PackagePutKey(c.repo, c.filename)
        err == PutObjectErr(store, key, fault)
        c1 == Logged(c, store, "put", key, err, fault)
        store1 == IF store[key] # NoObject THEN store
                  ELSE PutObject(store, key, Object(c.chart, c.id), fault)
    IN  IF err
        THEN Result(Respond(c1, 500, PutErrorMessage(key)), "done", store1)
        ELSE Result(Respond(c1, 201, objectSavedResponse), "done", store1)

PackagePut(c, store, fault) ==
    LET key == PackagePutKey(c.repo, c.filename)
        err == PutObjectErr(store, key, fault)
        c1 == Logged(c, store, "put", key, err, fault)
        store1 == PutObject(store, key, Object(c.chart, c.id), fault)
    IN  IF err
        THEN Result(Respond(c1, 500, PutErrorMessage(key)), "done", store1)
        ELSE Result(Respond(c1, 201, objectSavedResponse), "done", store1)

(***************************************************************************)
(* postProvenanceFileRequestHandler: raw body, provenance file only.       *)
(***************************************************************************)
ProvenanceProbeKey(repo, filename) == Join(repo, filename)

ProvenancePutKey(repo, filename) == filename

ProvenanceAccept(c, store) ==
    LET named == ProvenanceFilenameFromContent(c.prov)
    IN  IF c.prov = Unreadable
        THEN Result(Respond(c, 500, ReadErrorMessage), "done", store)
        ELSE IF named.err
        THEN Result(Respond(c, 500, InvalidContentMessage(c.prov)), "done", store)
        ELSE Result([c EXCEPT !.filename = named.filename],
                    IF ~AllowOverwrite THEN "prov_probe" ELSE "prov_put", store)

ProvenanceProbe(c, store, fault) ==
    LET key == ProvenanceProbeKey(c.repo, c.filename)
        err == GetObjectErr(store, key, fault)
        c1 == Logged(c, store, "get", key, err, fault)
    IN  IF ~err
        THEN Result(Respond(c1, 409, alreadyExistsErrorResponse), "done", store)
        ELSE Result(c1, "prov_put", store)

ProvenancePut(c, store, fault) ==
    LET key == ProvenancePutKey(c.repo, c.filename)
        err == PutObjectErr(store, key, fault)
        c1 == Logged(c, store, "put", key, err, fault)
        store1 == PutObject(store, key, Object(c.prov, c.id), fault)
    IN  IF err
        THEN Result(Respond(c1, 500, PutErrorMessage(key)), "done", store1)
        ELSE Result(Respond(c1, 201, objectSavedResponse), "done", store1)

(***************************************************************************)
(* postPackageAndProvenanceRequestHandler: multipart form with an optional *)
(* chart field and an optional provenance field.                           *)
(***************************************************************************)
packageOrProvenanceFile(filename, content, field) ==
    [filename |-> filename, content |-> content, field |-> field]

\* The fields in the order they are processed, each with its namer.
ffp == <<[field |-> ChartPostFormFieldName, fn |-> "package"],
         [field |-> ProvPostFormFieldName, fn |-> "provenance"]>>

fnFromContent(fn, content) ==
    IF fn = "package" THEN ChartPackageFilenameFromContent(content)
    ELSE ProvenanceFilenameFromContent(content)

\* The part of the form under a field.
FormFile(c, field) == IF field = ChartPostFormFieldName THEN c.chart ELSE c.prov

FormProbeKey(filename) == filename

FormPutKey(repo, filename) == Join(repo, filename)

FormRollbackKey(filename) == filename

AlreadyExistsMessage(filename) == <<filename, "already exists">>

\* Variant: the message names the chart field only.
NoFilesMessageOneField ==
    <<"no package or provenance file found in form field", ChartPostFormFieldName>>

NoFilesMessage ==
    <<"no package or provenance file found in form fields",
      ChartPostFormFieldName, "and", ProvPostFormFieldName>>

\* ppf is <<>> (nil) or one file; err is <<>> (nil) or a message.
Extracted(ppf, status, err, ops) == [ppf |-> ppf, status |-> status, err |-> err, ops |-> ops]

extractAndValidateFormFile(store, content, field, fn, fault) ==
    LET named == fnFromContent(fn, content)
        key == FormProbeKey(named.filename)
        err == GetObjectErr(store, key, fault)
    IN  IF content = Absent
        THEN Extracted(<<>>, 200, <<>>, <<>>)
        ELSE IF content = Unreadable
        THEN Extracted(<<>>, 500, ReadErrorMessage, <<>>)
        ELSE IF named.err
        THEN Extracted(<<>>, 400, InvalidContentMessage(content), <<>>)
        ELSE IF ~AllowOverwrite
        THEN IF ~err
             THEN Extracted(<<>>, 409, AlreadyExistsMessage(named.filename),
                            <<StorageOp(store, "get", key, err, fault)>>)
             ELSE Extracted(<<packageOrProvenanceFile(named.filename, content, field)>>,
                            200, <<>>, <<StorageOp(store, "get", key, err, fault)>>)
        ELSE Extracted(<<packageOrProvenanceFile(named.filename, content, field)>>,
                       200, <<>>, <<>>)

\* Variant: a candidate is written as soon as it is accepted.
FormExtractStoresEagerly(c, store, fault) ==
    LET ff == ffp[c.i]
        r == extractAndValidateFormFile(store, FormFile(c, ff.field), ff.field, ff.fn, fault)
        c1 == [c EXCEPT !.ops = @ \o r.ops]
        c2 == [c1 EXCEPT !.ppFiles = @ \o r.ppf, !.i = @ + 1]
        store1 == IF r.ppf = <<>> THEN store
                  ELSE PutObject(store, FormPutKey(c.repo, r.ppf[1].filename),
                                 Object(r.ppf[1].content, c.id), FALSE)
    IN  IF r.err # <<>>
        THEN Result(Respond(c1, r.status, r.err), "done", store)
        ELSE IF c.i < Len(ffp)
        THEN Result(c2, "form_extract", store1)
        ELSE IF Len(c2.ppFiles) = 0
        THEN Result(Respond(c2, 400, NoFilesMessage), "done", store1)
        ELSE Result([c2 EXCEPT !.i = 1], "form_put", store1)

\* One round of the loop over the fields; after the last, the empty-form check.
FormExtract(c, store, fault) ==
    LET ff == ffp[c.i]
        r == extractAndValidateFormFile(store, FormFile(c, ff.field), ff.field, ff.fn, fault)
        c1 == [c EXCEPT !.ops = @ \o r.ops]
        c2 == [c1 EXCEPT !.ppFiles = @ \o r.ppf, !.i = @ + 1]
    IN  IF r.err # <<>>
        THEN Result(Respond(c1, r.status, r.err), "done", store)
        ELSE IF c.i < Len(ffp)
        THEN Result(c2, "form_extract", store)
        ELSE IF Len(c2.ppFiles) = 0
        THEN Result(Respond(c2, 400, NoFilesMessage), "done", store)
        ELSE Result([c2 EXCEPT !.i = 1], "form_put", store)

\* Variant: the result of the write is not looked at.
FormPutIgnoresError(c, store, fault) ==
    LET ppf == c.ppFiles[c.i]
        key == FormPutKey(c.repo, ppf.filename)
        err == PutObjectErr(store, key, fault)
        c1 == Logged(c, store, "put", key, err, fault)
        store1 == PutObject(store, key, Object(ppf.content, c.id), fault)
        c2 == [c1 EXCEPT !.storedFiles = Append(@, ppf), !.i = @ + 1]
    IN  IF c.i < Len(c.ppFiles)
        THEN Result(c2, "form_put", store1)
        ELSE Result(Respond(c2, 201, objectSavedResponse), "done", store1)

\* One round of the loop over ppFiles.
FormPut(c, store, fault) ==
    LET ppf == c.ppFiles[c.i]
        key == FormPutKey(c.repo, ppf.filename)
        err == PutObjectErr(store, key, fault)
        c1 == Logged(c, store, "put", key, err, fault)
        store1 == PutObject(store, key, Object(ppf.content, c.id), fault)
        c2 == [c1 EXCEPT !.storedFiles = Append(@, ppf), !.i = @ + 1]
    IN  IF ~err
        THEN IF c.i < Len(c.ppFiles)
             THEN Result(c2, "form_put", store1)
             ELSE Result(Respond(c2, 201, objectSavedResponse), "done", store1)
        ELSE IF c.storedFiles = <<>>
        THEN Result(Respond(c1, 500, PutErrorMessage(key)), "done", store1)
        ELSE Result([c1 EXCEPT !.i = 1, !.putErr = PutErrorMessage(key)],
                    "form_rollback", store1)

\* One round of the clean-up loop over storedFiles.
FormRollback(c, store, fault) ==
    LET ppf == c.storedFiles[c.i]
        key == FormRollbackKey(ppf.filename)
        err == DeleteObjectErr(store, key, fault)
        c1 == Logged(c, store, "delete", key, err, fault)
        store1 == DeleteObject(store, key, fault)
    IN  IF c.i < Len(c.storedFiles)
        THEN Result([c1 EXCEPT !.i = @ + 1], "form_rollback", store1)
        ELSE Result(Respond(c1, 500, c.putErr), "done", store1)

(***************************************************************************)
(* deleteChartVersionRequestHandler.                                       *)
(***************************************************************************)
DeletePackageKey(repo, name, version) ==
    Join(repo, ChartPackageFilenameFromNameVersion(name, version))

DeleteProvenanceKey(repo, name, version) ==
    Join(repo, ProvenanceFilenameFromNameVersion(name, version))

\* Variant: the provenance delete follows a failed package delete too.
DeletePackageIgnoresError(c, store, fault) ==
    LET key == Join(c.repo, ChartPackageFilenameFromNameVersion(c.name, c.version))
        err == DeleteObjectErr(store, key, fault)
        c1 == Logged(c, store, "delete", key, err, fault)
        store1 == DeleteObject(store, key, fault)
    IN  Result(c1, "delete_prov", store1)

DeletePackage(c, store, fault) ==
    LET key == DeletePackageKey(c.repo, c.name, c.version)
        err == DeleteObjectErr(store, key, fault)
        c1 == Logged(c, store, "delete", key, err, fault)
        store1 == DeleteObject(store, key, fault)
    IN  IF err
        THEN Result(Respond(c1, 404, notFoundErrorResponse), "done", store1)
        ELSE Result(c1, "delete_prov", store1)

\* Variant: a failed provenance delete is reported to the caller.
DeleteProvenanceReportsError(c, store, fault) ==
    LET key == Join(c.repo, ProvenanceFilenameFromNameVersion(c.name, c.version))
        err == DeleteObjectErr(store, key, fault)
        c1 == Logged(c, store, "delete", key, err, fault)
        store1 == DeleteObject(store, key, fault)
    IN  IF err
        THEN Result(Respond(c1, 404, notFoundErrorResponse), "done", store1)
        ELSE Result(Respond(c1, 200, objectDeletedResponse), "done", store1)

DeleteProvenance(c, store, fault) ==
    LET key == DeleteProvenanceKey(c.repo, c.name, c.version)
        err == DeleteObjectErr(store, key, fault)
        c1 == Logged(c, store, "delete", key, err, fault)
        store1 == DeleteObject(store, key, fault)
    IN  Result(Respond(c1, 200, objectDeletedResponse), "done", store1)

(***************************************************************************)
(* Actions.                                                                *)
(***************************************************************************)
Apply(w, r) ==
    /\ call' = [call EXCEPT ![w] = r.call]
    /\ pc' = [pc EXCEPT ![w] = r.pc]
    /\ storage' = r.storage

Running(w) == pc[w] \notin {"idle", "done"}

\* The worker that takes the next request when requests do not overlap.
Turn == IF ncalls % 2 = 0 THEN "w1" ELSE "w2"

\* A worker that is not in a handler takes a request; seq: requests do not overlap.
Accept(w, seq) ==
    /\ ~Running(w)
    /\ IF seq
       THEN ncalls < MaxCalls /\ w = Turn /\ \A v \in Workers : ~Running(v)
       ELSE ncalls < MaxConcCalls
    /\ ncalls' = ncalls + 1
    /\ UNCHANGED <<AllowOverwrite, index, fetched>>

Step(w, at) ==
    /\ pc[w] = at
    /\ UNCHANGED <<AllowOverwrite, ncalls, index, fetched>>

postPackageRequestHandler(w, seq) ==
    /\ Accept(w, seq)
    /\ \E repo \in Tenants, body \in PackageBodies :
          Apply(w, PackageAccept([NewCall("package", repo) EXCEPT !.chart = body], storage))

postPackageProbe(w) ==
    /\ Step(w, "package_probe")
    /\ \E fault \in BOOLEAN : Apply(w, PackageProbe(call[w], storage, fault))

postPackagePut(w) ==
    /\ Step(w, "package_put")
    /\ \E fault \in BOOLEAN : Apply(w, PackagePut(call[w], storage, fault))

postProvenanceFileRequestHandler(w, seq) ==
    /\ Accept(w, seq)
    /\ \E repo \in Tenants, body \in ProvenanceBodies :
          Apply(w, ProvenanceAccept([NewCall("provenance", repo) EXCEPT !.prov = body], storage))

postProvenanceProbe(w) ==
    /\ Step(w, "prov_probe")
    /\ \E fault \in BOOLEAN : Apply(w, ProvenanceProbe(call[w], storage, fault))

postProvenancePut(w) ==
    /\ Step(w, "prov_put")
    /\ \E fault \in BOOLEAN : Apply(w, ProvenancePut(call[w], storage, fault))

postPackageAndProvenanceRequestHandler(w, seq) ==
    /\ Accept(w, seq)
    /\ \E repo \in Tenants, chart \in PackageBodies \cup {Absent},
          prov \in ProvenanceBodies \cup {Absent} :
          Apply(w, Result([NewCall("form", repo) EXCEPT !.chart = chart, !.prov = prov, !.i = 1],
                          "form_extract", storage))

postFormExtract(w) ==
    /\ Step(w, "form_extract")
    /\ \E fault \in BOOLEAN : Apply(w, FormExtract(call[w], storage, fault))

postFormPut(w) ==
    /\ Step(w, "form_put")
    /\ \E fault \in BOOLEAN : Apply(w, FormPut(call[w], storage, fault))

postFormRollback(w) ==
    /\ Step(w, "form_rollback")
    /\ \E fault \in BOOLEAN : Apply(w, FormRollback(call[w], storage, fault))

deleteChartVersionRequestHandler(w, seq) ==
    /\ Accept(w, seq)
    /\ \E repo \in Tenants, name \in ChartNames, version \in ChartVersions :
          Apply(w, Result([NewCall("delete", repo) EXCEPT !.name = name, !.version = version],
                          "delete_package", storage))

deletePackage(w) ==
    /\ Step(w, "delete_package")
    /\ \E fault \in BOOLEAN : Apply(w, DeletePackage(call[w], storage, fault))

deleteProvenance(w) ==
    /\ Step(w, "delete_prov")
    /\ \E fault \in BOOLEAN : Apply(w, DeleteProvenance(call[w], storage, fault))

Handlers(w, seq) ==
    \/ postPackageRequestHandler(w, seq)
    \/ postPackageProbe(w)
    \/ postPackagePut(w)
    \/ postProvenanceFileRequestHandler(w, seq)
    \/ postProvenanceProbe(w)
    \/ postProvenancePut(w)
    \/ postPackageAndProvenanceRequestHandler(w, seq)
    \/ postFormExtract(w)
    \/ postFormPut(w)
    \/ postFormRollback(w)
    \/ deleteChartVersionRequestHandler(w, seq)
    \/ deletePackage(w)
    \/ deleteProvenance(w)

\* Requests served concurrently, one worker each.
Next == \E w \in Workers : Handlers(w, FALSE)

Spec == Init /\ [][Next]_vars

\* Requests served one after the other.
SeqNext == \E w \in Workers : Handlers(w, TRUE)

SeqSpec == Init /\ [][SeqNext]_vars

\* The steps of a handler after the request was accepted.
Steps(w) ==
    \/ postPackageProbe(w)
    \/ postPackagePut(w)
    \/ postProvenanceProbe(w)
    \/ postProvenancePut(w)
    \/ postFormExtract(w)
    \/ postFormPut(w)
    \/ postFormRollback(w)
    \/ deletePackage(w)
    \/ deleteProvenance(w)

\* Requests served one after the other; a handler whose collaborators return
\* keeps running until it returns.
FairSeqSpec == SeqSpec /\ \A w \in Workers : WF_vars(Steps(w))

(***************************************************************************)
(* Vocabulary of the properties.                                           *)
(***************************************************************************)
Done(w) == pc[w] = "done"

\* The worker's request has returned and no request was accepted since.
Latest(w) == Done(w) /\ call[w].id = ncalls

\* Request v was accepted right after request w returned.
InSequence(w, v) == Done(w) /\ Done(v) /\ call[v].id = call[w].id + 1

OpsOf(c, op) == {n \in 1..Len(c.ops) : c.ops[n].op = op}

Mutations(c) == OpsOf(c, "put") \cup OpsOf(c, "delete")

ValidPackage(content) == ~ChartPackageFilenameFromContent(content).err

ValidProvenance(content) == ~ProvenanceFilenameFromContent(content).err

PackageKey(c) == Join(c.repo, ChartPackageFilenameFromContent(c.chart).filename)

ProvenanceKey(c) == Join(c.repo, ProvenanceFilenameFromContent(c.prov).filename)

\* Keys holding an object written by one of the given calls.
WrittenBy(ids) == {k \in Keys : storage[k] # NoObject /\ storage[k].by \in ids}

\* A form request carrying a valid package and a valid provenance file.
FullForm(c) == c.op = "form" /\ ValidPackage(c.chart) /\ ValidProvenance(c.prov)

\* Its package write succeeded, its provenance write failed, and no rollback
\* delete met a backend fault.
ProvenanceWriteFailed(c) ==
    /\ FullForm(c)
    /\ \E m, n \in OpsOf(c, "put") :
          /\ m < n
          /\ c.ops[m].key = PackageKey(c) /\ ~c.ops[m].err
          /\ c.ops[n].key = ProvenanceKey(c) /\ c.ops[n].err
    /\ \A n \in OpsOf(c, "delete") : ~c.ops[n].fault

\* C1: a form ingestion whose package write succeeds and whose provenance
\* write fails ends with 500 and, its rollback deletes meeting no backend
\* fault, leaves neither tenant/package nor tenant/provenance in storage:
\* every object it wrote is deleted at the key it was written to.
C1_RollbackRemovesWrittenObjects ==
    \A w \in Workers :
        (/\ Latest(w)
         /\ ProvenanceWriteFailed(call[w])
         /\ call[w].pre[PackageKey(call[w])] = NoObject
         /\ call[w].pre[ProvenanceKey(call[w])] = NoObject)
        => /\ Status(call[w]) = 500
           /\ storage[PackageKey(call[w])] = NoObject
           /\ storage[ProvenanceKey(call[w])] = NoObject
           /\ \A m \in OpsOf(call[w], "put") :
                 ~call[w].ops[m].err
                 => \E n \in OpsOf(call[w], "delete") :
                       n > m /\ call[w].ops[n].key = call[w].ops[m].key

\* A raw package request with well-formed bytes that met no backend fault.
CleanPackage(c) == c.op = "package" /\ ValidPackage(c.chart) /\ ~Faulted(c)

\* C2: with overwrite disabled and no backend fault, a raw package ingestion
\* to a free key is saved (201), the same bytes ingested again for the same
\* tenant right after conflict (409), and the two calls leave exactly one
\* object, the first call's, under tenant/filename.
C2_SecondIngestConflicts ==
    ~AllowOverwrite =>
        /\ \A w \in Workers :
              (/\ Latest(w)
               /\ CleanPackage(call[w])
               /\ call[w].pre[PackageKey(call[w])] = NoObject)
              => /\ Status(call[w]) = 201
                 /\ storage[PackageKey(call[w])] = Object(call[w].chart, call[w].id)
        /\ \A w, v \in Workers :
              (/\ InSequence(w, v)
               /\ Latest(v)
               /\ CleanPackage(call[w])
               /\ CleanPackage(call[v])
               /\ Status(call[w]) = 201
               /\ call[v].repo = call[w].repo
               /\ call[v].chart = call[w].chart)
              => /\ Status(call[v]) = 409
                 /\ storage[PackageKey(call[w])] = Object(call[w].chart, call[w].id)
                 /\ WrittenBy({call[w].id, call[v].id}) = {PackageKey(call[w])}

C2_Witness ==
    \E w, v \in Workers :
        /\ ~AllowOverwrite
        /\ InSequence(w, v)
        /\ Latest(v)
        /\ CleanPackage(call[w])
        /\ CleanPackage(call[v])
        /\ call[v].repo = call[w].repo
        /\ call[v].chart = call[w].chart
        /\ Status(call[w]) = 201
        /\ Status(call[v]) = 409

\* A form request whose present fields are all well-formed, with at least one
\* present, and that met no backend fault.
CleanForm(c) ==
    /\ c.op = "form"
    /\ c.chart = Absent \/ ValidPackage(c.chart)
    /\ c.prov = Absent \/ ValidProvenance(c.prov)
    /\ c.chart # Absent \/ c.prov # Absent
    /\ ~Faulted(c)

\* A candidate of the form finds an object under tenant/filename.
FormConflict(c) ==
    \/ ValidPackage(c.chart) /\ c.pre[PackageKey(c)] # NoObject
    \/ ValidProvenance(c.prov) /\ c.pre[ProvenanceKey(c)] # NoObject

\* C3: with overwrite disabled, a form ingestion one of whose candidates
\* finds an object under tenant/filename ends with 409 and writes nothing;
\* so the same package form-ingested twice is saved, then conflicts.
C3_FormConflictProbe ==
    ~AllowOverwrite =>
        \A w \in Workers :
            (Latest(w) /\ CleanForm(call[w]) /\ FormConflict(call[w]))
            => /\ Status(call[w]) = 409
               /\ Mutations(call[w]) = {}
               /\ storage = call[w].pre

\* A request that ingests a well-formed package, raw or by form, and met no
\* backend fault.
CleanPackageIngestion(c) ==
    \/ CleanPackage(c)
    \/ CleanForm(c) /\ ValidPackage(c.chart)

\* C4: with overwrite enabled no request issues a get; and of two packages
\* of the same derived name ingested one after the other for the same tenant,
\* without backend fault, both are saved (201) and tenant/filename then holds
\* the second call's bytes.
C4_OverwriteSkipsProbe ==
    AllowOverwrite =>
        /\ \A w \in Workers : OpsOf(call[w], "get") = {}
        /\ \A w, v \in Workers :
              (/\ InSequence(w, v)
               /\ Latest(v)
               /\ CleanPackageIngestion(call[w])
               /\ CleanPackageIngestion(call[v])
               /\ PackageKey(call[v]) = PackageKey(call[w]))
              => /\ Status(call[w]) = 201
                 /\ Status(call[v]) = 201
                 /\ storage[PackageKey(call[v])] = Object(call[v].chart, call[v].id)

C4_Witness ==
    \E w, v \in Workers :
        /\ AllowOverwrite
        /\ InSequence(w, v)
        /\ Latest(v)
        /\ CleanPackage(call[w])
        /\ CleanPackage(call[v])
        /\ PackageKey(call[v]) = PackageKey(call[w])
        /\ call[v].chart # call[w].chart
        /\ Status(call[v]) = 201
        /\ storage[PackageKey(call[v])].content = call[v].chart

\* A delete request whose package delete has been made and failed.
PackageDeleteFailed(c) == c.op = "delete" /\ Len(c.ops) >= 1 /\ c.ops[1].err

\* A delete request whose package delete has been made and succeeded.
PackageDeleteSucceeded(c) == c.op = "delete" /\ Len(c.ops) >= 1 /\ ~c.ops[1].err

\* C5: a delete request whose package delete fails (object absent or backend
\* fault) answers 404 at once, never issues the provenance delete, and
\* leaves storage as it found it.
C5_FailedPackageDeleteIsNotFound ==
    \A w \in Workers :
        PackageDeleteFailed(call[w])
        => /\ Done(w)
           /\ Status(call[w]) = 404
           /\ Len(call[w].ops) = 1
           /\ call[w].ops[1].key = DeletePackageKey(call[w].repo, call[w].name, call[w].version)
           /\ Latest(w) => storage = call[w].pre

C5_Witness ==
    \E w \in Workers :
        /\ Latest(w)
        /\ PackageDeleteFailed(call[w])
        /\ call[w].ops[1].fault
        /\ call[w].pre[call[w].ops[1].key] # NoObject
        /\ Status(call[w]) = 404

\* C6: a delete request whose package delete succeeds issues the provenance
\* delete exactly once, after the package delete, and answers 200 whatever
\* that delete returns; the package object is then absent.
C6_DeleteToleratesProvenanceFailure ==
    \A w \in Workers :
        PackageDeleteSucceeded(call[w])
        => /\ call[w].ops[1].key = DeletePackageKey(call[w].repo, call[w].name, call[w].version)
           /\ pc[w] = "delete_prov" => Len(call[w].ops) = 1 /\ call[w].resp = <<>>
           /\ Done(w) =>
                 /\ call[w].resp = <<Response(200, objectDeletedResponse)>>
                 /\ Len(call[w].ops) = 2
                 /\ call[w].ops[2].op = "delete"
                 /\ call[w].ops[2].key =
                       DeleteProvenanceKey(call[w].repo, call[w].name, call[w].version)
           /\ Latest(w) => storage[call[w].ops[1].key] = NoObject

C6_Witness ==
    \E w \in Workers :
        /\ Latest(w)
        /\ PackageDeleteSucceeded(call[w])
        /\ Len(call[w].ops) = 2
        /\ call[w].ops[2].err
        /\ Status(call[w]) = 200

\* A form request with neither field present.
EmptyForm(c) == c.op = "form" /\ c.chart = Absent /\ c.prov = Absent

Names(msg, word) == \E n \in 1..Len(msg) : msg[n] = word

\* C7: a form request with neither field present issues no storage call and
\* answers 400 with a message naming both configured field names.
C7_EmptyFormIsValidationError ==
    \A w \in Workers :
        EmptyForm(call[w])
        => /\ call[w].ops = <<>>
           /\ Done(w) =>
                 /\ Len(call[w].resp) = 1
                 /\ Status(call[w]) = 400
                 /\ Names(call[w].resp[1].msg, ChartPostFormFieldName)
                 /\ Names(call[w].resp[1].msg, ProvPostFormFieldName)

C7_Witness ==
    \E w \in Workers : Done(w) /\ EmptyForm(call[w]) /\ Status(call[w]) = 400

\* A request that ingests: raw package, raw provenance or form.
Ingestion(c) == c.op \in {"package", "provenance", "form"}

\* The request was refused as malformed (the namer rejected a payload, or the
\* form was empty) or as conflicting.
RefusedAsInvalidOrConflict(c) ==
    \/ Status(c) \in {400, 409}
    \/ c.op = "package" /\ Status(c) # 0 /\ c.chart # Unreadable /\ ~ValidPackage(c.chart)
    \/ c.op = "provenance" /\ Status(c) # 0 /\ c.prov # Unreadable /\ ~ValidProvenance(c.prov)

\* C8: an ingestion that ends with a validation or conflict error has made no
\* put and no delete, and storage is as the call found it; so a form whose
\* package was accepted and whose provenance is refused writes no package.
C8_RefusalsWriteNothing ==
    \A w \in Workers :
        (Done(w) /\ Ingestion(call[w]) /\ RefusedAsInvalidOrConflict(call[w]))
        => /\ Mutations(call[w]) = {}
           /\ Latest(w) => storage = call[w].pre

C8_Witness ==
    \E w \in Workers :
        /\ Latest(w)
        /\ call[w].op = "form"
        /\ Len(call[w].ppFiles) = 1
        /\ call[w].ppFiles[1].field = ChartPostFormFieldName
        /\ call[w].prov = ProvA1
        /\ Status(call[w]) = 409
        /\ storage[PackageKey(call[w])] = NoObject

\* C9: a form request answers 201 only when every candidate was written: at
\* the answer each candidate's object is under tenant/filename with the
\* candidate's content, the candidates being the present fields; a request
\* one of whose writes failed never answers 201.
C9_SavedMeansAllWritten ==
    \A w \in Workers :
        (Done(w) /\ call[w].op = "form")
        => /\ (\E n \in OpsOf(call[w], "put") : call[w].ops[n].err) => Status(call[w]) # 201
           /\ Status(call[w]) = 201 =>
                 /\ Len(call[w].ppFiles) >= 1
                 /\ call[w].storedFiles = call[w].ppFiles
                 /\ call[w].chart # Absent =>
                       \E n \in 1..Len(call[w].ppFiles) :
                           call[w].ppFiles[n].content = call[w].chart
                 /\ call[w].prov # Absent =>
                       \E n \in 1..Len(call[w].ppFiles) :
                           call[w].ppFiles[n].content = call[w].prov
                 /\ Latest(w) =>
                       \A n \in 1..Len(call[w].ppFiles) :
                           storage[Join(call[w].repo, call[w].ppFiles[n].filename)] =
                               Object(call[w].ppFiles[n].content, call[w].id)

C9_Witness ==
    \E w \in Workers :
        /\ Latest(w)
        /\ FullForm(call[w])
        /\ Status(call[w]) = 201
        /\ storage[PackageKey(call[w])].content = call[w].chart
        /\ storage[ProvenanceKey(call[w])].content = call[w].prov

\* The put of a raw package request, if it has made one.
PutOf(c) == {n \in OpsOf(c, "put") : ~c.ops[n].err}

\* Two raw package requests for the same key, both saved, the second's write
\* replacing the object the first wrote.
Overwrote(c, d) ==
    /\ c.op = "package" /\ d.op = "package"
    /\ Status(c) = 201 /\ Status(d) = 201
    /\ PackageKey(c) = PackageKey(d)
    /\ \E n \in PutOf(d) : d.ops[n].saw = c.id

\* C10: with overwrite disabled, when of two raw package requests for the
\* same key both are saved and the second's write replaced the first's
\* object, both passed the probe and the stored content is the later
\* write's; the race that gets there is reachable (C10_Witness).
C10_LaterWriteWins ==
    ~AllowOverwrite =>
        \A w, v \in Workers :
            (Done(w) /\ Done(v) /\ Overwrote(call[w], call[v]))
            => /\ storage[PackageKey(call[v])] = Object(call[v].chart, call[v].id)
               /\ \A c \in {call[w], call[v]} :
                     c.ops[1].op = "get" /\ c.ops[1].err /\ c.ops[1].key = PackageKey(c)

C10_Witness ==
    \E w, v \in Workers :
        /\ ~AllowOverwrite
        /\ Done(w) /\ Done(v)
        /\ Overwrote(call[w], call[v])
        /\ ~Faulted(call[w]) /\ ~Faulted(call[v])
        /\ call[w].chart # call[v].chart
        /\ call[w].pre[PackageKey(call[w])] = NoObject
        /\ call[v].pre[PackageKey(call[v])] = NoObject
        /\ storage[PackageKey(call[v])].content = call[v].chart

\* A handler has answered nothing while it runs and exactly once when it
\* has returned.
OneOutcome(w) ==
    /\ Running(w) => call[w].resp = <<>>
    /\ Done(w) => Len(call[w].resp) = 1

\* C11: every request, whatever the namer and the storage calls return,
\* reaches its return and has then answered exactly once: never no answer,
\* never two.
C11_ExactlyOneOutcome ==
    /\ [](\A w \in Workers : OneOutcome(w))
    /\ \A w \in Workers : Running(w) ~> Done(w)

C11_Witness ==
    \E w \in Workers :
        /\ Done(w)
        /\ call[w].op = "form"
        /\ OpsOf(call[w], "delete") # {}
        /\ \A n \in OpsOf(call[w], "delete") : call[w].ops[n].err
        /\ Len(call[w].resp) = 1

(***************************************************************************)
(* A handler run from the request to its return, alone, every storage call *)
(* meeting the same backend condition.                                     *)
(***************************************************************************)
HandlerStep(r, fault) ==
    CASE r.pc = "package_probe" -> PackageProbe(r.call, r.storage, fault)
      [] r.pc = "package_put" -> PackagePut(r.call, r.storage, fault)
      [] r.pc = "prov_probe" -> ProvenanceProbe(r.call, r.storage, fault)
      [] r.pc = "prov_put" -> ProvenancePut(r.call, r.storage, fault)
      [] r.pc = "form_extract" -> FormExtract(r.call, r.storage, fault)
      [] r.pc = "form_put" -> FormPut(r.call, r.storage, fault)
      [] r.pc = "form_rollback" -> FormRollback(r.call, r.storage, fault)
      [] r.pc = "delete_package" -> DeletePackage(r.call, r.storage, fault)
      [] r.pc = "delete_prov" -> DeleteProvenance(r.call, r.storage, fault)

RECURSIVE Run(_, _)
Run(r, fault) == IF r.pc = "done" THEN r ELSE Run(HandlerStep(r, fault), fault)

ingestSingle(store, repo, body, fault) ==
    Run(PackageAccept([NewCall("package", repo) EXCEPT !.chart = body, !.pre = store], store),
        fault)

ingestForm(store, repo, chart, prov, fault) ==
    Run(Result([NewCall("form", repo) EXCEPT !.chart = chart, !.prov = prov, !.i = 1,
                                              !.pre = store],
               "form_extract", store),
        fault)

\* The class of an outcome.
OutcomeClass(status) ==
    CASE status = 201 -> "saved"
      [] status = 400 -> "validation"
      [] status = 409 -> "conflict"
      [] OTHER -> "backend"

\* C12: from any storage state, for every tenant, overwrite setting and
\* package bytes (well-formed or not), the raw package ingestion and the form
\* ingestion carrying the bytes in the package field alone end in the same
\* outcome class and leave the same storage.
C12_ProtocolsConverge ==
    \A repo \in Tenants, body \in PackageBodies, fault \in BOOLEAN :
        LET single == ingestSingle(storage, repo, body, fault)
            form == ingestForm(storage, repo, body, Absent, fault)
        IN  /\ OutcomeClass(Status(single.call)) = OutcomeClass(Status(form.call))
            /\ single.storage = form.storage

\* The key lies under the tenant's prefix.
UnderTenant(key, repo) == key \in {Join(repo, f) : f \in Filenames}

\* C13: every storage call (get, put, delete) a request makes for tenant T
\* addresses a key under T/, so no request reads, writes or deletes an
\* object outside its tenant's prefix.
C13_OpsUnderTenantPrefix ==
    \A w \in Workers :
        \A n \in 1..Len(call[w].ops) : UnderTenant(call[w].ops[n].key, call[w].repo)

(***************************************************************************)
(* Retrieval: getChartVersionRequestHandler over the tenant's index.       *)
(***************************************************************************)
\* indexFile.Get(name, version): the first record of the chart that matches;
\* the empty version matches every record.
IndexGet(entries, name, version) ==
    LET vs == IF name \in DOMAIN entries THEN entries[name] ELSE <<>>
        match == {n \in 1..Len(vs) : version = "" \/ vs[n].version = version}
    IN  IF match = {}
        THEN [chartVersion |-> NoChartVersion, err |-> TRUE]
        ELSE [chartVersion |-> vs[CHOOSE n \in match : \A m \in match : n <= m],
              err |-> FALSE]

\* server.getIndexFile: the tenant's index, or an error with its status.
getIndexFile(repo, unavailable) ==
    IF unavailable
    THEN [entries |-> [n \in IndexNames |-> <<>>], status |-> 500]
    ELSE [entries |-> index[repo], status |-> 0]

Fetched(repo, name, version, status, chartVersion, entries) ==
    [repo |-> repo, name |-> name, version |-> version, status |-> status,
     chartVersion |-> chartVersion, entries |-> entries]

\* Variant: the version is handed to the index as it came.
getChartVersionNoSentinel(repo, name, version, unavailable) ==
    LET indexFile == getIndexFile(repo, unavailable)
        got == IndexGet(indexFile.entries, name, version)
    IN  IF indexFile.status # 0
        THEN Fetched(repo, name, version, indexFile.status, NoChartVersion, indexFile.entries)
        ELSE IF got.err
        THEN Fetched(repo, name, version, 404, NoChartVersion, indexFile.entries)
        ELSE Fetched(repo, name, version, 200, got.chartVersion, indexFile.entries)

getChartVersion(repo, name, version, unavailable) ==
    LET v == IF version = "latest" THEN "" ELSE version
        indexFile == getIndexFile(repo, unavailable)
        got == IndexGet(indexFile.entries, name, v)
    IN  IF indexFile.status # 0
        THEN Fetched(repo, name, version, indexFile.status, NoChartVersion, indexFile.entries)
        ELSE IF got.err
        THEN Fetched(repo, name, version, 404, NoChartVersion, indexFile.entries)
        ELSE Fetched(repo, name, version, 200, got.chartVersion, indexFile.entries)

RequestedNames == IndexNames \cup {"b"}
RequestedVersions == IndexVersions \cup {"latest", "9"}

getChartVersionRequestHandler ==
    /\ \E repo \in Tenants, name \in RequestedNames, version \in RequestedVersions,
          unavailable \in BOOLEAN :
          fetched' = getChartVersion(repo, name, version, unavailable)
    /\ UNCHANGED <<AllowOverwrite, storage, pc, call, ncalls, index>>

\* Chart version requests over any index.
IndexInit ==
    /\ AllowOverwrite \in BOOLEAN
    /\ storage = [k \in Keys |-> NoObject]
    /\ pc = [w \in Workers |-> "idle"]
    /\ call = [w \in Workers |-> EmptyCall]
    /\ ncalls = 0
    /\ index \in [Tenants -> IndexFiles]
    /\ fetched = NothingFetched

IndexNext == getChartVersionRequestHandler

IndexSpec == IndexInit /\ [][IndexNext]_vars

\* The record of the highest version among the entries of a chart.
Highest(vs) ==
    vs[CHOOSE n \in 1..Len(vs) : \A m \in 1..Len(vs) : Rank(vs[m].version) <= Rank(vs[n].version)]

\* The entries of the chart in the index the request was answered from.
EntriesOf(f) == IF f.name \in DOMAIN f.entries THEN f.entries[f.name] ELSE <<>>

Holds(vs, version) == \E n \in 1..Len(vs) : vs[n].version = version

\* C14: answered from an available index, a chart version request with
\* "latest" for a chart with at least one version returns the record of the
\* highest version in the tenant's index; with an exact version it returns
\* that version's record; it answers 404 when the index holds no such chart
\* or version.
C14_LatestIsHighest ==
    (fetched # NothingFetched /\ fetched.status # 500)
    => LET vs == EntriesOf(fetched)
       IN  /\ fetched.entries = index[fetched.repo]
           /\ (fetched.version = "latest" /\ vs # <<>>)
              => fetched.status = 200 /\ fetched.chartVersion = Highest(vs)
           /\ (fetched.version # "latest" /\ Holds(vs, fetched.version))
              => /\ fetched.status = 200
                 /\ fetched.chartVersion = ChartVersion(fetched.name, fetched.version)
           /\ (vs = <<>> \/ (fetched.version # "latest" /\ ~Holds(vs, fetched.version)))
              => fetched.status = 404

C14_Witness ==
    /\ fetched.version = "latest"
    /\ Len(EntriesOf(fetched)) >= 2
    /\ fetched.status = 200
    /\ fetched.chartVersion = Highest(EntriesOf(fetched))

\* The namer rejected the body of a single-artifact package ingestion.
NamerRejected(c) == c.op = "package" /\ c.chart # Unreadable /\ ~ValidPackage(c.chart)

\* C15: a single-artifact ingestion whose body the namer rejects ends with a
\* validation-class error, not the backend class of a failed write, and
\* without any storage access.
C15_NamerRejectionIsValidation ==
    \A w \in Workers :
        (Done(w) /\ NamerRejected(call[w]))
        => /\ OutcomeClass(Status(call[w])) = "validation"
           /\ call[w].ops = <<>>

\* The puts of the call that failed.
FailedPuts(c) == {n \in OpsOf(c, "put") : c.ops[n].err}

\* A form ingestion in which a write failed and a rollback delete failed too.
RollbackFailed(c) ==
    /\ c.op = "form"
    /\ FailedPuts(c) # {}
    /\ \E n \in OpsOf(c, "delete") : c.ops[n].err

\* The call ended with one backend error, carrying the failed write's message.
OnlyWriteFailureReported(c) ==
    \E n \in FailedPuts(c) : c.resp = <<Response(500, PutErrorMessage(c.ops[n].key))>>

\* Every object the call wrote was the target of a later delete of the call.
RollbackCoversWrites(c) ==
    \A n \in PutOf(c) : \E m \in OpsOf(c, "delete") : n < m /\ c.ops[m].key = c.ops[n].key

\* C16: when a write of a form ingestion fails and a rollback delete fails as
\* well, the call ends with exactly one backend error carrying the message of
\* the failed write, and a rollback delete was attempted for every object the
\* call had written.
C16_RollbackFailureSwallowed ==
    \A w \in Workers :
        (Done(w) /\ RollbackFailed(call[w]))
        => /\ OnlyWriteFailureReported(call[w])
           /\ RollbackCoversWrites(call[w])

\* The fields of a form request that carry a file.
PresentFields(c) == {n \in 1..Len(ffp) : FormFile(c, ffp[n].field) # Absent}

\* Every artifact of the request was named and probed, and every probe failed.
AllProbesFailed(c) ==
    /\ Ingestion(c)
    /\ OpsOf(c, "get") # {}
    /\ \A n \in OpsOf(c, "get") : c.ops[n].err
    /\ c.op = "form" => Cardinality(OpsOf(c, "get")) = Cardinality(PresentFields(c))

\* C17: with overwrite disabled, an ingestion whose probes all failed, for
\* whatever reason, goes on to write: its first put follows its last probe,
\* it never answers with a conflict, and it answers with a backend error only
\* when a put failed.
C17_FailedProbeIsAbsence ==
    ~AllowOverwrite =>
        \A w \in Workers :
            (Done(w) /\ AllProbesFailed(call[w]))
            => LET c == call[w]
               IN  /\ Len(c.ops) > Cardinality(OpsOf(c, "get"))
                   /\ c.ops[Cardinality(OpsOf(c, "get")) + 1].op = "put"
                   /\ Status(c) \in {201, 500}
                   /\ Status(c) = 500 <=> FailedPuts(c) # {}
                   /\ c.op = "form" => Len(c.ppFiles) = Cardinality(OpsOf(c, "get"))

\* A package request whose probe failed on a backend fault while the object
\* was there, and whose write then replaced the object.
C17_Witness ==
    /\ ~AllowOverwrite
    /\ \E w \in Workers :
          /\ Done(w) /\ call[w].op = "package" /\ Status(call[w]) = 201
          /\ \E n \in OpsOf(call[w], "get") :
                call[w].ops[n].fault /\ call[w].ops[n].saw # 0
          /\ \E n \in PutOf(call[w]) : call[w].ops[n].saw # 0
          /\ storage[PackageKey(call[w])] = Object(call[w].chart, call[w].id)

\* The keys of the storage calls at the given positions of the call's log.
KeysAt(c, ns) == {c.ops[n].key : n \in ns}

\* The puts of a form request follow the order of the fields, each one issued
\* after the one before it returned success; none follows a failed put.
PutsInFieldOrder(c) ==
    /\ \A m, n \in OpsOf(c, "put") : m < n => ~c.ops[m].err
    /\ \A n \in OpsOf(c, "put") :
          c.ops[n].key = ProvenanceKey(c) /\ ValidPackage(c.chart)
          => \E m \in PutOf(c) : m < n /\ c.ops[m].key = PackageKey(c)
    /\ \A n \in OpsOf(c, "get"), m \in OpsOf(c, "put") : n < m

\* Deletes are issued only after a failed put, one for each put that
\* succeeded before it.
RollbackOfPrefix(c) ==
    /\ \A n \in OpsOf(c, "delete") : \E m \in FailedPuts(c) : m < n
    /\ Cardinality(OpsOf(c, "delete")) = IF FailedPuts(c) = {} THEN 0 ELSE Cardinality(PutOf(c))

\* C18: in a form ingestion the writes are sequential in field order, the
\* provenance put is issued only after the package put succeeded, no put
\* follows a failed put, and when a put failed the objects rolled back are
\* exactly the objects of the puts that succeeded before it.
C18_SequentialWritesAndPrefixRollback ==
    \A w \in Workers :
        (Done(w) /\ call[w].op = "form")
        => /\ PutsInFieldOrder(call[w])
           /\ RollbackOfPrefix(call[w])
           /\ FailedPuts(call[w]) # {}
              => KeysAt(call[w], OpsOf(call[w], "delete")) = KeysAt(call[w], PutOf(call[w]))

\* Every key the call wrote is a key it probed before.
WritesWhatItProbed(c) ==
    \A n \in OpsOf(c, "put") : \E m \in OpsOf(c, "get") : m < n /\ c.ops[m].key = c.ops[n].key

\* Request d repeats request c: same path, same tenant, same artifacts.
SameIngestion(c, d) ==
    /\ Ingestion(c) /\ c.op = d.op /\ c.repo = d.repo
    /\ c.chart = d.chart /\ c.prov = d.prov

\* C19: with overwrite disabled, in every ingestion path the key probed for
\* a conflict is the key the call then writes, so that after a saved
\* ingestion the same ingestion through the same path, met by no backend
\* fault, ends in a conflict.
C19_ProbeKeyIsWriteKey ==
    ~AllowOverwrite =>
        /\ \A w \in Workers : Ingestion(call[w]) => WritesWhatItProbed(call[w])
        /\ \A w, v \in Workers :
              (/\ InSequence(w, v)
               /\ SameIngestion(call[w], call[v])
               /\ Status(call[w]) = 201
               /\ ~Faulted(call[v]))
              => Status(call[v]) = 409

\* The rollback deletes of a form request that removed an object.
RolledBack(c) == {n \in OpsOf(c, "delete") : c.op = "form" /\ ~c.ops[n].err}

\* Another request that wrote the object under the key and reported it saved.
SavedByOther(c, n) ==
    \E v \in Workers :
        /\ call[v].id = c.ops[n].saw /\ call[v].id # c.id
        /\ Ingestion(call[v]) /\ Status(call[v]) = 201

\* C20: under any interleaving, each object a rollback removes was written
\* by the request that rolls back; it is never an object that another
\* ingestion wrote and reported saved.
C20_RollbackRemovesOnlyOwnObjects ==
    \A w \in Workers :
        \A n \in RolledBack(call[w]) :
            /\ call[w].ops[n].saw = call[w].id
            /\ ~SavedByOther(call[w], n)

====
